---- MODULE Spec2Model ----
(***************************************************************************)
(* Model of web/src/hooks/useVersionCheck.tsx: the pure comparator         *)
(* isNewerVersion and the useVersionCheck hook (one fetch per effect run,  *)
(* aborted by the effect's cleanup).                                       *)
(*                                                                         *)
(* A JavaScript string is a sequence of one-character strings.  null is    *)
(* the one-element sequence Null, which no character sequence equals.      *)
(***************************************************************************)
EXTENDS Integers, Sequences, FiniteSets, TLC

VARIABLES
    state,      \* the VersionInfo held by useState (what the hook returns)
    prop,       \* the currentVersion argument of the latest render
    mounted,    \* TRUE from the first render until the component unmounts
    requests,   \* one record per effect run (controller + checkVersion call)
    sameRenders, \* renders so far that left the dependency [currentVersion] as it was
    argA,       \* first argument of a call of isNewerVersion
    argB,       \* second argument of a call of isNewerVersion
    ret         \* <<>> before the call returns, <<its result>> after

hook == <<state, prop, mounted, requests, sameRenders>>
cmp  == <<argA, argB, ret>>
vars == <<state, prop, mounted, requests, sameRenders, argA, argB, ret>>

Null == <<"null">>

\* ------------------------------------------------------------------------
\* Bounds of the model

\* effect runs (activations) of one hook instance
MaxActivations == 3

\* renders of one hook instance with an unchanged currentVersion
MaxSameRenders == 1

\* dot-separated components of a generated version string
MaxParts == 3

\* ------------------------------------------------------------------------
\* isNewerVersion (lines 12-20)

Digits == {"0", "1", "2", "3", "4", "5", "6", "7", "8", "9"}

DigitVal(c) ==
    CASE c = "0" -> 0 [] c = "1" -> 1 [] c = "2" -> 2 [] c = "3" -> 3
      [] c = "4" -> 4 [] c = "5" -> 5 [] c = "6" -> 6 [] c = "7" -> 7
      [] c = "8" -> 8 [] c = "9" -> 9

\* a parse that keeps the leading v
StripV_none(v) == v

\* v.replace(/^v/, ''): drops one leading lower-case v
StripV(v) ==
    IF Len(v) > 0 /\ v[1] = "v" THEN SubSeq(v, 2, Len(v)) ELSE v

\* s.split('.'): the pieces between the dots; always at least one piece
RECURSIVE SplitFrom(_, _, _)
SplitFrom(s, i, cur) ==
    IF i > Len(s) THEN <<cur>>
    ELSE IF s[i] = "." THEN <<cur>> \o SplitFrom(s, i + 1, <<>>)
    ELSE SplitFrom(s, i + 1, Append(cur, s[i]))

SplitDots(s) == SplitFrom(s, 1, <<>>)

\* The value of the longest run of digits starting at position i, as
\* parseInt accumulates it; acc = -1 while no digit has been read (NaN).
RECURSIVE DigitRun(_, _, _)
DigitRun(s, i, acc) ==
    IF i > Len(s) \/ s[i] \notin Digits THEN acc
    ELSE DigitRun(s, i + 1, (IF acc < 0 THEN 0 ELSE acc) * 10 + DigitVal(s[i]))

RECURSIVE SkipSpaces(_, _)
SkipSpaces(s, i) ==
    IF i <= Len(s) /\ s[i] = " " THEN SkipSpaces(s, i + 1) ELSE i

\* a parse that defaults an unreadable component to 1
ParseIntOrZero_one(n) ==
    LET i    == SkipSpaces(n, 1)
        sgn  == IF i <= Len(n) /\ n[i] = "-" THEN -1 ELSE 1
        j    == IF i <= Len(n) /\ n[i] \in {"-", "+"} THEN i + 1 ELSE i
        mag  == DigitRun(n, j, -1)
    IN  IF mag < 0 THEN 1 ELSE sgn * mag

\* parseInt(n, 10) || 0: leading white space, one optional sign, then the
\* longest run of digits; NaN (no digit) and 0 both give 0.
ParseIntOrZero(n) ==
    LET i    == SkipSpaces(n, 1)
        sgn  == IF i <= Len(n) /\ n[i] = "-" THEN -1 ELSE 1
        j    == IF i <= Len(n) /\ n[i] \in {"-", "+"} THEN i + 1 ELSE i
        mag  == DigitRun(n, j, -1)
    IN  IF mag < 0 THEN 0 ELSE sgn * mag

\* parse(v): v.replace(/^v/, '').split('.').map(n => parseInt(n, 10) || 0)
parse(v) ==
    LET parts == SplitDots(StripV(v))
    IN  [k \in 1..Len(parts) |-> ParseIntOrZero(parts[k])]

\* const [x1, x2, x3] = parse(..): a position past the end is undefined
Component(p, k) ==
    IF k <= Len(p) THEN [def |-> TRUE, val |-> p[k]]
    ELSE [def |-> FALSE, val |-> 0]

\* x !== y on number | undefined
StrictNotEqual(x, y) ==
    x.def # y.def \/ (x.def /\ x.val # y.val)

\* a comparison with >= in place of >
GreaterThan_orEqual(x, y) ==
    x.def /\ y.def /\ x.val >= y.val

\* x > y on number | undefined: undefined converts to NaN, and every
\* comparison with NaN is false
GreaterThan(x, y) ==
    x.def /\ y.def /\ x.val > y.val

\* a comparator whose last line tests !== in place of >
isNewerVersion_differs(a, b) ==
    LET pa == parse(a)
        pb == parse(b)
        aMajor == Component(pa, 1)  bMajor == Component(pb, 1)
        aMinor == Component(pa, 2)  bMinor == Component(pb, 2)
        aPatch == Component(pa, 3)  bPatch == Component(pb, 3)
    IN  IF StrictNotEqual(aMajor, bMajor) THEN GreaterThan(aMajor, bMajor)
        ELSE IF StrictNotEqual(aMinor, bMinor) THEN GreaterThan(aMinor, bMinor)
        ELSE StrictNotEqual(aPatch, bPatch)

isNewerVersion(a, b) ==
    LET pa == parse(a)
        pb == parse(b)
        aMajor == Component(pa, 1)  bMajor == Component(pb, 1)
        aMinor == Component(pa, 2)  bMinor == Component(pb, 2)
        aPatch == Component(pa, 3)  bPatch == Component(pb, 3)
    IN  IF StrictNotEqual(aMajor, bMajor) THEN GreaterThan(aMajor, bMajor)
        ELSE IF StrictNotEqual(aMinor, bMinor) THEN GreaterThan(aMinor, bMinor)
        ELSE GreaterThan(aPatch, bPatch)

\* ------------------------------------------------------------------------
\* Inputs of the hook and answers of the release feed

S130  == <<"1", ".", "3", ".", "0">>
S1100 == <<"1", ".", "1", "0", ".", "0">>
Sv140 == <<"v", "1", ".", "4", ".", "0">>

\* values of the currentVersion argument (string | null)
CurrentVersions == {Null, S130, S1100}

\* values of data.tag_name in an ok response; Null: the field is absent
\* or null
TagNames == {Sv140, S130, Null}

StatusTexts == {"Internal Server Error", "Not Found"}

\* what the feed does to a fetch: an ok response, a non-ok response, or a
\* transport failure (fetch rejects with a TypeError)
FetchOutcomes ==
    {[kind |-> "response", ok |-> TRUE, statusText |-> "OK"]}
    \cup {[kind |-> "response", ok |-> FALSE, statusText |-> t] : t \in StatusTexts}
    \cup {[kind |-> "TypeError"]}

\* what response.json() gives: the parsed payload, or a SyntaxError
JsonOutcomes ==
    {[kind |-> "data", tag_name |-> t] : t \in TagNames}
    \cup {[kind |-> "SyntaxError"]}

AbortError   == [name |-> "AbortError", message |-> <<"The operation was aborted.">>]
NetworkError == [name |-> "TypeError", message |-> <<"Failed to fetch">>]
ParseError   == [name |-> "SyntaxError", message |-> <<"Unexpected token">>]

\* new Error(`Version check failed: ${response.statusText}`) (line 49)
StatusError(statusText) ==
    [name |-> "Error", message |-> <<"Version check failed: ", statusText>>]

\* ------------------------------------------------------------------------
\* useVersionCheck (lines 26-83)

\* the argument of useState (lines 27-33)
InitialState(currentVersion) ==
    [latestVersion   |-> Null,
     currentVersion  |-> currentVersion,
     updateAvailable |-> FALSE,
     loading         |-> TRUE,
     error           |-> Null]

\* One effect run (lines 36-77): a fresh AbortController and one call of
\* checkVersion, which closes over the currentVersion of that render.
\*   status  "fetch"      awaiting fetch (line 40)
\*           "json"       awaiting response.json() (line 52)
\*           "resolved"   returned after the setState of line 59
\*           "failed"     returned after the setState of line 69
\*           "suppressed" returned at line 68 without a setState
\*   tag     data.tag_name ?? null once the payload has been read
NewRequest(currentVersion) ==
    [cv      |-> currentVersion,
     aborted |-> FALSE,
     status  |-> "fetch",
     tag     |-> Null]

\* a cleanup that leaves the controller alone
Abort_noop(r) == r

\* controller.abort() (line 79)
Abort(r) == [r EXCEPT !.aborted = TRUE]

\* a fetch that was not given the controller's signal
Settled_unsignalled(r, outcome) ==
    IF outcome.kind = "TypeError"
    THEN [kind |-> "throw", err |-> NetworkError]
    ELSE IF outcome.kind = "SyntaxError"
         THEN [kind |-> "throw", err |-> ParseError]
    ELSE [kind |-> "value", value |-> outcome]

\* What an await on a signal-bound operation gives checkVersion (lines
\* 40-46, 52): once the signal is aborted the pending promise is rejected
\* with an AbortError, whatever the feed delivers later.
Settled(r, outcome) ==
    IF r.aborted THEN [kind |-> "throw", err |-> AbortError]
    ELSE IF outcome.kind = "TypeError"
         THEN [kind |-> "throw", err |-> NetworkError]
    ELSE IF outcome.kind = "SyntaxError"
         THEN [kind |-> "throw", err |-> ParseError]
    ELSE [kind |-> "value", value |-> outcome]

\* a catch block that does not recognise the abort
IsAbortError_never(err) == FALSE

\* (err as Error).name === 'AbortError' (line 68)
IsAbortError(err) == err.name = "AbortError"

\* a catch block that also clears the result of the earlier check
CatchState_resets(err, prev) ==
    IF IsAbortError(err) THEN prev
    ELSE [prev EXCEPT !.loading = FALSE, !.error = err.message,
                      !.latestVersion = Null, !.updateAvailable = FALSE]

\* the catch block (lines 66-74): the next state
CatchState(err, prev) ==
    IF IsAbortError(err) THEN prev
    ELSE [prev EXCEPT !.loading = FALSE, !.error = err.message]

\* the catch block (lines 66-74): how checkVersion ends
CatchStatus(err) ==
    IF IsAbortError(err) THEN "suppressed" ELSE "failed"

\* an update flag that only asks whether both versions are present
UpdateAvailable_present(latestVersion, currentVersion) ==
    /\ latestVersion # Null
    /\ currentVersion # Null

\* lines 54-57
UpdateAvailable(latestVersion, currentVersion) ==
    /\ latestVersion # Null
    /\ currentVersion # Null
    /\ isNewerVersion(latestVersion, currentVersion)

\* a success write that spreads the previous state's error
SuccessState_keepsError(latestVersion, currentVersion, prev) ==
    [latestVersion   |-> latestVersion,
     currentVersion  |-> currentVersion,
     updateAvailable |-> UpdateAvailable(latestVersion, currentVersion),
     loading         |-> FALSE,
     error           |-> prev.error]

\* a success write that keeps the previous latestVersion when the payload
\* has no tag_name
SuccessState_keepsLatest(latestVersion, currentVersion, prev) ==
    [latestVersion   |-> IF latestVersion = Null THEN prev.latestVersion
                         ELSE latestVersion,
     currentVersion  |-> currentVersion,
     updateAvailable |-> UpdateAvailable(latestVersion, currentVersion),
     loading         |-> FALSE,
     error           |-> Null]

\* the success setState (lines 53-65)
SuccessState(latestVersion, currentVersion, prev) ==
    [latestVersion   |-> latestVersion,
     currentVersion  |-> currentVersion,
     updateAvailable |-> UpdateAvailable(latestVersion, currentVersion),
     loading         |-> FALSE,
     error           |-> Null]

Init ==
    \E cv \in CurrentVersions :
        /\ state = InitialState(cv)
        /\ prop = cv
        /\ mounted = TRUE
        /\ requests = <<NewRequest(cv)>>
        /\ sameRenders = 0
        /\ argA = <<>> /\ argB = <<>> /\ ret = <<>>

\* a dependency test that lets the effect run on every render
DepsChanged_always(prev, next) == TRUE

\* the dependency array [currentVersion] (line 80): the effect and its
\* cleanup run only when the value differs from the previous render's
DepsChanged(prev, next) == prev # next

\* an effect that calls checkVersion twice
Rerender_twice(cv) ==
    /\ mounted
    /\ DepsChanged(prop, cv)
    /\ Len(requests) < MaxActivations
    /\ prop' = cv
    /\ requests' = Append(Append([requests EXCEPT ![Len(requests)] = Abort(@)],
                                 NewRequest(cv)),
                          NewRequest(cv))
    /\ UNCHANGED <<state, mounted, sameRenders, cmp>>

\* A render with a changed currentVersion: the dependency [currentVersion]
\* changed, so the previous effect's cleanup aborts its controller and the
\* effect runs again.  The useState initialiser is not evaluated again.
Rerender(cv) ==
    /\ mounted
    /\ DepsChanged(prop, cv)
    /\ Len(requests) < MaxActivations
    /\ prop' = cv
    /\ requests' = Append([requests EXCEPT ![Len(requests)] = Abort(@)],
                          NewRequest(cv))
    /\ UNCHANGED <<state, mounted, sameRenders, cmp>>

\* a cleanup that clears the loading flag
Unmount_writes ==
    /\ mounted
    /\ mounted' = FALSE
    /\ requests' = [requests EXCEPT ![Len(requests)] = Abort(@)]
    /\ state' = [state EXCEPT !.loading = FALSE]
    /\ UNCHANGED <<prop, sameRenders, cmp>>

\* The component unmounts: the last effect's cleanup runs.
Unmount ==
    /\ mounted
    /\ mounted' = FALSE
    /\ requests' = [requests EXCEPT ![Len(requests)] = Abort(@)]
    /\ UNCHANGED <<state, prop, sameRenders, cmp>>

\* A render with the currentVersion of the previous render: neither the
\* cleanup nor the effect runs, and useState returns the state it holds.
RenderSame(cv) ==
    /\ mounted
    /\ ~DepsChanged(prop, cv)
    /\ sameRenders < MaxSameRenders
    /\ sameRenders' = sameRenders + 1
    /\ prop' = cv
    /\ UNCHANGED <<state, mounted, requests, cmp>>

\* The cleanup of the last effect is called once more after the unmount:
\* controller.abort() on a controller that is aborted already.
CleanupAgain ==
    /\ ~mounted
    /\ requests' = [requests EXCEPT ![Len(requests)] = Abort(@)]
    /\ UNCHANGED <<state, prop, mounted, sameRenders, cmp>>

\* The await of line 40 completes for request i and checkVersion runs on,
\* to the await of line 52 or to its end.
FetchSettles(i, outcome) ==
    /\ requests[i].status = "fetch"
    /\ LET r   == requests[i]
           got == Settled(r, outcome)
       IN  IF got.kind = "value" /\ got.value.ok
           THEN /\ requests' = [requests EXCEPT ![i].status = "json"]
                /\ UNCHANGED state
           ELSE LET err == IF got.kind = "value"
                           THEN StatusError(got.value.statusText)
                           ELSE got.err
                IN  /\ state' = CatchState(err, state)
                    /\ requests' = [requests EXCEPT ![i].status = CatchStatus(err)]
    /\ UNCHANGED <<prop, mounted, sameRenders, cmp>>

\* The await of line 52 completes for request i and checkVersion runs to
\* its end.
JsonSettles(i, outcome) ==
    /\ requests[i].status = "json"
    /\ LET r   == requests[i]
           got == Settled(r, outcome)
       IN  IF got.kind = "value"
           THEN /\ state' = SuccessState(got.value.tag_name, r.cv, state)
                /\ requests' = [requests EXCEPT ![i].status = "resolved",
                                                ![i].tag = got.value.tag_name]
           ELSE /\ state' = CatchState(got.err, state)
                /\ requests' = [requests EXCEPT ![i].status = CatchStatus(got.err)]
    /\ UNCHANGED <<prop, mounted, sameRenders, cmp>>

Next ==
    \/ \E cv \in CurrentVersions : Rerender(cv)
    \/ \E cv \in CurrentVersions : RenderSame(cv)
    \/ Unmount
    \/ CleanupAgain
    \/ \E i \in DOMAIN requests : \E o \in FetchOutcomes : FetchSettles(i, o)
    \/ \E i \in DOMAIN requests : \E o \in JsonOutcomes : JsonSettles(i, o)

Spec == Init /\ [][Next]_vars

\* some pending await of some request completes
Settles ==
    \E i \in DOMAIN requests :
        \/ \E o \in FetchOutcomes : FetchSettles(i, o)
        \/ \E o \in JsonOutcomes : JsonSettles(i, o)

\* the feed answers every request in the end, and an aborted await is
\* rejected in the end
FairSpec == Spec /\ WF_vars(Settles)

\* ------------------------------------------------------------------------
\* isNewerVersion called on its own (lines 12-20)

\* the text of one component
Tokens ==
    {<<"0">>, <<"9">>, <<"1", "0">>, <<"a", "b">>}

\* parts.join('.')
RECURSIVE JoinDots(_)
JoinDots(parts) ==
    IF Len(parts) = 1 THEN parts[1]
    ELSE parts[1] \o <<".">> \o JoinDots(Tail(parts))

Prefixes == {<<>>, <<"v">>}

\* strings named in the documentation of the comparator, and strings
\* outside its grammar
Examples ==
    {<<"v", "2", ".", "0", ".", "0">>, <<"1", ".", "9", ".", "9">>,
     <<"1", ".", "2", ".", "3">>, <<"1", ".", "1", "0", ".", "0">>,
     <<"a", "b", "c">>, <<"1", ".", "0", ".", "0">>,
     <<"1", ".", "2", ".", "1">>, <<"1", ".", "2">>, <<>>,
     <<"9", "a">>, <<"1", ".", "2", ".", "3", "-", "r", "c">>,
     <<"-", "9">>, <<"1", ".", ".", "2">>, <<"V", "9">>, <<" ", "9">>}

\* the arguments tried: an optional v, then 1..MaxParts components
VersionStrings ==
    {pre \o JoinDots(p) :
        pre \in Prefixes,
        p \in UNION {[1..n -> Tokens] : n \in 1..MaxParts}}
    \cup Examples

\* no hook instance takes part in a bare comparison
CmpInit ==
    /\ argA \in VersionStrings
    /\ argB \in VersionStrings
    /\ ret = <<>>
    /\ state = InitialState(Null)
    /\ prop = Null
    /\ mounted = FALSE
    /\ requests = <<>>
    /\ sameRenders = 0

\* isNewerVersion(argA, argB) returns
Compare ==
    /\ ret = <<>>
    /\ ret' = <<isNewerVersion(argA, argB)>>
    /\ UNCHANGED <<argA, argB, hook>>

CmpNext == Compare

CmpSpec == CmpInit /\ [][CmpNext]_vars

TypeOK ==
    /\ state \in [latestVersion : TagNames, currentVersion : CurrentVersions,
                  updateAvailable : BOOLEAN, loading : BOOLEAN,
                  error : {Null, NetworkError.message, ParseError.message}
                          \cup {StatusError(t).message : t \in StatusTexts}]
    /\ prop \in CurrentVersions
    /\ mounted \in BOOLEAN
    /\ Len(requests) \in 1..MaxActivations

\* ------------------------------------------------------------------------
\* Properties

\* checkVersion of request r has called setState
Wrote(r) == r.status \in {"resolved", "failed"}

\* request r has been issued and has neither completed nor been aborted
InFlight(r) == r.status \in {"fetch", "json"} /\ ~r.aborted

\* request r was aborted before its checkVersion could write
Superseded(r) == r.aborted /\ r.status \in {"fetch", "json", "suppressed"}

\* C1: a completion of a superseded or aborted request never writes the
\* state: every step that changes the state is the setState of a request,
\* and a request that calls setState is the latest one, not aborted.
C1_StaleNeverWrites ==
    [][/\ state' # state =>
            \E i \in DOMAIN requests :
                ~Wrote(requests[i]) /\ Wrote(requests'[i])
       /\ \A i \in DOMAIN requests :
            (~Wrote(requests[i]) /\ Wrote(requests'[i]))
                => (i = Len(requests) /\ ~requests[i].aborted)]_vars

\* a superseded request's completion has arrived and was dropped, and the
\* request of the latest activation has written
C1_Witness ==
    /\ Len(requests) >= 2
    /\ requests[1].status = "suppressed"
    /\ Wrote(requests[Len(requests)])

\* C2: after the component has unmounted the state never changes again,
\* and a request that was pending then only ever ends suppressed.
C2_SilentAfterDeactivation ==
    [][~mounted =>
        /\ state' = state
        /\ \A i \in DOMAIN requests :
              requests'[i].status \in {requests[i].status, "suppressed"}]_vars

\* deactivated before the feed responded; the feed's answer came later and
\* the state is still the loading snapshot
C2_Witness ==
    /\ ~mounted
    /\ Len(requests) = 1
    /\ requests[1].status = "suppressed"
    /\ state = InitialState(prop)

\* C3: at most one request is in flight, and every request but the latest
\* has been aborted.
C3_AtMostOneInFlight ==
    /\ Cardinality({i \in DOMAIN requests : InFlight(requests[i])}) <= 1
    /\ \A i \in DOMAIN requests : i < Len(requests) => requests[i].aborted

\* a re-activation while the previous request was outstanding: the old
\* request is aborted and still pending, the new one is in flight
C3_Witness ==
    /\ Len(requests) >= 2
    /\ requests[1].aborted /\ requests[1].status = "fetch"
    /\ InFlight(requests[2])

\* C4: every activation sets the state to the loading snapshot of the
\* supplied currentVersion.
C4_ActivationResetsState ==
    [][Len(requests') > Len(requests) => state' = InitialState(prop')]_vars

\* C5: a failure of the current request leaves loading false, error
\* non-null, latestVersion null and updateAvailable false.
C5_FailureState ==
    [][\A i \in DOMAIN requests :
          (requests[i].status # "failed" /\ requests'[i].status = "failed")
              => /\ state'.loading = FALSE
                 /\ state'.error # Null
                 /\ state'.latestVersion = Null
                 /\ state'.updateAvailable = FALSE]_vars

\* C6: while the latest activation's currentVersion is null,
\* updateAvailable is false.
C6_NullCurrentVersion ==
    prop = Null => state.updateAvailable = FALSE

\* C7: once the request of a re-activation that superseded a pending check
\* has ended, the state reflects that activation only: its currentVersion,
\* and the latestVersion or error of that request.
C7_FinalStateOfLatest ==
    LET n == Len(requests)
    IN  (n >= 2 /\ Superseded(requests[n - 1]) /\ Wrote(requests[n]))
            => /\ state.currentVersion = requests[n].cv
               /\ state.loading = FALSE
               /\ requests[n].status = "resolved"
                    => (state.error = Null /\ state.latestVersion = requests[n].tag)
               /\ requests[n].status = "failed"
                    => state.error # Null

\* C8: updateAvailable holds exactly when both versions of the state are
\* present and latestVersion is newer than currentVersion.
C8_UpdateAvailableIff ==
    state.updateAvailable <=>
        /\ state.latestVersion # Null
        /\ state.currentVersion # Null
        /\ isNewerVersion(state.latestVersion, state.currentVersion)

\* an update is flagged in a state a later failure has written to
C8_Witness ==
    /\ state.updateAvailable
    /\ state.error # Null
    /\ \E i \in DOMAIN requests : requests[i].status = "failed"

\* C9: a state with loading false has exactly one of latestVersion and
\* error non-null.
C9_ExactlyOneOutcome ==
    ~state.loading =>
        \/ (state.latestVersion # Null /\ state.error = Null)
        \/ (state.error # Null /\ state.latestVersion = Null)

\* C10: an ok response with tag_name T for the current request of an
\* activation with currentVersion C writes exactly
\* {T, C, C non-null and T newer than C, loading false, error null}.
C10_SuccessState ==
    [][\A i \in DOMAIN requests :
          (/\ i = Len(requests)
           /\ ~requests[i].aborted
           /\ requests[i].status = "json"
           /\ requests'[i].status = "resolved"
           /\ requests'[i].tag # Null)
              => state' = [latestVersion   |-> requests'[i].tag,
                           currentVersion  |-> prop,
                           updateAvailable |->
                               (prop # Null /\ isNewerVersion(requests'[i].tag, prop)),
                           loading         |-> FALSE,
                           error           |-> Null]]_vars

\* a success with a tag, written over the error of an earlier failure
C10_Witness ==
    LET n == Len(requests)
    IN  /\ n >= 2
        /\ requests[n - 1].status = "failed"
        /\ requests[n].status = "resolved"
        /\ requests[n].tag # Null
        /\ state.error = Null

\* ------------------------------------------------------------------------
\* Properties of isNewerVersion (under CmpSpec)

DigitChar(d) ==
    CASE d = 0 -> "0" [] d = 1 -> "1" [] d = 2 -> "2" [] d = 3 -> "3"
      [] d = 4 -> "4" [] d = 5 -> "5" [] d = 6 -> "6" [] d = 7 -> "7"
      [] d = 8 -> "8" [] d = 9 -> "9"

\* the decimal text of n, 0 <= n <= 99
NumStr(n) ==
    IF n < 10 THEN <<DigitChar(n)>>
    ELSE <<DigitChar(n \div 10), DigitChar(n % 10)>>

TripleStr(pre, t) ==
    pre \o NumStr(t[1]) \o <<".">> \o NumStr(t[2]) \o <<".">> \o NumStr(t[3])

\* the full major.minor.patch strings among the arguments tried, each with
\* the triple of numbers it was written from
FullTriples ==
    {[s |-> TripleStr(pre, t), t |-> t] :
        pre \in Prefixes,
        t \in ({0, 9, 10} \X {0, 9, 10} \X {0, 9, 10})
              \cup {<<2, 0, 0>>, <<1, 9, 9>>, <<1, 2, 3>>, <<1, 10, 0>>,
                    <<1, 0, 0>>, <<1, 2, 1>>}}

\* x is strictly greater than y in the lexicographic order of triples
LexGreater(x, y) ==
    \/ x[1] > y[1]
    \/ x[1] = y[1] /\ x[2] > y[2]
    \/ x[1] = y[1] /\ x[2] = y[2] /\ x[3] > y[3]

\* C11: on full major.minor.patch triples, with or without a leading v,
\* isNewerVersion(a, b) is true exactly when the triple of a is greater
\* than the triple of b, components compared as numbers.
C11_TripleOrder ==
    ret # <<>> =>
        \A x \in FullTriples : x.s = argA =>
            \A y \in FullTriples : y.s = argB =>
                (ret[1] <=> LexGreater(x.t, y.t))

\* 1.10.0 has been found newer than 1.9.9
C11_Witness ==
    /\ ret = <<TRUE>>
    /\ argA = TripleStr(<<>>, <<1, 10, 0>>)
    /\ argB = TripleStr(<<>>, <<1, 9, 9>>)

AllDigits(tok) ==
    Len(tok) > 0 /\ \A k \in 1..Len(tok) : tok[k] \in Digits

\* one, two or three components, every one a run of digits
IsNumericVersion(v) ==
    LET parts == SplitDots(StripV(v))
    IN  Len(parts) <= 3 /\ \A k \in 1..Len(parts) : AllDigits(parts[k])

\* v padded with '.0' to three components
RECURSIVE PadZeros(_)
PadZeros(v) ==
    IF Len(SplitDots(v)) < 3 THEN PadZeros(v \o <<".", "0">>) ELSE v

\* C12: a missing minor or patch component counts as 0: on versions of
\* one to three numeric components the result equals the result on the
\* arguments padded with '.0'.
C12_MissingAsZero ==
    (ret # <<>> /\ IsNumericVersion(argA) /\ IsNumericVersion(argB))
        => ret[1] = isNewerVersion(PadZeros(argA), PadZeros(argB))

\* C13: isNewerVersion(x, x) is false for every string x.
C13_Irreflexive ==
    (ret # <<>> /\ argA = argB) => ret = <<FALSE>>

\* a malformed string has been compared with itself
C13_Witness ==
    /\ ret # <<>>
    /\ argA = <<"a", "b", "c">>
    /\ argB = argA

\* v with every component for which test holds replaced by 0
ZeroWhere(v, test(_)) ==
    LET parts == SplitDots(StripV(v))
    IN  JoinDots([k \in 1..Len(parts) |->
                    IF test(parts[k]) THEN <<"0">> ELSE parts[k]])

\* tok is not a decimal integer (white space, a sign, then only digits)
NonNumeric(tok) ==
    LET i == SkipSpaces(tok, 1)
        j == IF i <= Len(tok) /\ tok[i] \in {"-", "+"} THEN i + 1 ELSE i
    IN  ~(j <= Len(tok) /\ \A k \in j..Len(tok) : tok[k] \in Digits)

\* no decimal digit follows the optional white space and sign
Unreadable(tok) ==
    LET i == SkipSpaces(tok, 1)
        j == IF i <= Len(tok) /\ tok[i] \in {"-", "+"} THEN i + 1 ELSE i
    IN  ~(j <= Len(tok) /\ tok[j] \in Digits)

Done(r) == r.status \in {"resolved", "failed", "suppressed"}

\* C15: one request per activation and no retry: a step issues a request
\* exactly when it is an activation (a render of the mounted hook with a
\* changed currentVersion), it issues one, and no request goes back to
\* its fetch.
C15_OneRequestPerActivation ==
    [][/\ Len(requests') =
            IF prop' # prop THEN Len(requests) + 1 ELSE Len(requests)
       /\ \A i \in DOMAIN requests :
            /\ requests'[i].cv = requests[i].cv
            /\ requests[i].status # "fetch" => requests'[i].status # "fetch"]_vars

\* a check failed, nothing was sent until the next activation, whose
\* request failed too
C15_Witness ==
    /\ Len(requests) = 2
    /\ requests[1].status = "failed"
    /\ requests[2].status = "failed"

\* C16: a step that leaves the hook deactivated (the unmount, also of a
\* completed check, and everything after it) changes no state, issues no
\* request, revives no aborted controller and alters no completed check.
C16_DeactivationIdempotent ==
    [][mounted' = FALSE =>
        /\ state' = state
        /\ Len(requests') = Len(requests)
        /\ \A i \in DOMAIN requests :
              /\ requests[i].aborted => requests'[i].aborted
              /\ Done(requests[i]) => requests'[i] = Abort(requests[i])]_vars

\* the hook was deactivated after its check had completed
C16_Witness ==
    /\ ~mounted
    /\ Len(requests) = 1
    /\ requests[1].status = "resolved"
    /\ requests[1].aborted
    /\ ~state.loading

\* C17: every check that is not aborted ends with loading false, and the
\* write that ends a check is the one change of loading from true to
\* false of that check.
C17_LoadingOnce ==
    /\ \A k \in 1..MaxActivations :
          (k \in DOMAIN requests /\ ~requests[k].aborted)
              ~> (k \in DOMAIN requests
                    /\ (requests[k].aborted
                          \/ (Wrote(requests[k]) /\ ~state.loading)))
    /\ [][\A i \in DOMAIN requests :
             (~Wrote(requests[i]) /\ Wrote(requests'[i]))
                 => (state.loading /\ ~state'.loading)]_vars

\* C18: an ok response without tag_name for the current request ends the
\* check as a success with latestVersion null.
C18_NoTagSuccess ==
    [][\A i \in DOMAIN requests :
          (/\ i = Len(requests)
           /\ ~requests[i].aborted
           /\ requests[i].status = "json"
           /\ requests'[i].status = "resolved"
           /\ requests'[i].tag = Null)
              => /\ state'.latestVersion = Null
                 /\ state'.updateAvailable = FALSE
                 /\ state'.loading = FALSE
                 /\ state'.error = Null]_vars

\* a payload without tag_name has been written over an earlier result
\* that had one
C18_Witness ==
    LET n == Len(requests)
    IN  /\ n >= 2
        /\ requests[n - 1].status = "resolved"
        /\ requests[n - 1].tag # Null
        /\ requests[n].status = "resolved"
        /\ requests[n].tag = Null
        /\ state.latestVersion = Null

\* C19: the failure write changes loading and error only.
C19_FailureFrame ==
    [][\A i \in DOMAIN requests :
          (requests[i].status # "failed" /\ requests'[i].status = "failed")
              => /\ state'.latestVersion = state.latestVersion
                 /\ state'.currentVersion = state.currentVersion
                 /\ state'.updateAvailable = state.updateAvailable]_vars

\* a failure has left the result of an earlier check in place
C19_Witness ==
    /\ requests[Len(requests)].status = "failed"
    /\ state.latestVersion # Null
    /\ state.currentVersion # prop

\* C20: a render with the same currentVersion leaves state and requests
\* as they are, and while currentVersion is the same and the hook stays
\* mounted no request is aborted or issued.
C20_SameVersionNoop ==
    [][/\ sameRenders' # sameRenders =>
            (state' = state /\ requests' = requests /\ prop' = prop)
       /\ (prop' = prop /\ mounted') =>
            /\ Len(requests') = Len(requests)
            /\ \A i \in DOMAIN requests :
                  requests'[i].aborted = requests[i].aborted]_vars

\* the hook was rendered again with the same currentVersion and its
\* request is still in flight
C20_Witness ==
    /\ sameRenders > 0
    /\ Len(requests) = 1
    /\ InFlight(requests[1])

\* ------------------------------------------------------------------------
\* A further property of isNewerVersion (under CmpSpec)

\* C21: isNewerVersion is asymmetric: when isNewerVersion(a, b) is true,
\* isNewerVersion(b, a) is false, for full triples, shorter versions and
\* malformed strings alike.
C21_Asymmetric ==
    ret = <<TRUE>> => ~isNewerVersion(argB, argA)

\* a malformed string has been found newer than a two-component version
C21_Witness ==
    /\ ret = <<TRUE>>
    /\ argA = <<"9", "a">>
    /\ argB = <<"1", ".", "2">>

====
